---- MODULE Spec2Model ----
(***************************************************************************)
(* DataCloak Python client (api-client-examples/python-client.py):         *)
(* the request layer of DataCloakClient (requests + urllib3 Retry) and of  *)
(* AsyncDataCloakClient (aiohttp + hand-written retry loop), and the job   *)
(* poller poll_job_completion built on get_job.                            *)
(***************************************************************************)
EXTENDS Integers, Sequences, FiniteSets, TLC

\* ---------------------------------------------------------------- bounds
\* largest max_retries a client is constructed with
MaxRetries == 2
\* largest value of the clock (the unit is the poller's second)
MaxTime == 3
\* largest max_wait handed to poll_job_completion
MaxWait == 1
\* largest interval handed to poll_job_completion
MaxInterval == 1
\* most status fetches one poll is followed for
MaxFetches == 3
\* largest max_retries of a client whose poller is followed
PollRetries == 0
\* the largest max_retries of a client that logs in and uploads
AuthRetries == 1
\* the requests started together on one async client
NumTasks == 3

\* ------------------------------------------------- Python None, missing keys
\* status_code = None / no count in a message
NoStatus == 0
\* a key missing from a JSON object
Absent == "<absent>"
\* JSON null, Python None
Null == "<null>"

Min(a, b) == IF a < b THEN a ELSE b

\* ------------------------------------------------------------ the remote
Methods == {"GET", "POST", "PUT", "DELETE"}

\* HTTP statuses the remote answers with
OkStatuses == {200}
ErrStatuses == {400, 401, 404, 413, 429, 500, 502, 503, 504}

\* values of a Retry-After header (0: the header is not sent)
RetryAfterValues == {0, 7}

JobStatuses == {"queued", "running", "paused", "completed", "failed", "cancelled"}
TerminalStatuses == {"completed", "failed", "cancelled"}

\* A response body.  kind: "object" a JSON object, "nonobject" valid JSON that
\* is no object (a list, a string, null), "invalid" malformed JSON sent as
\* application/json, "nonjson" a body of another content type (an HTML error
\* page) that is no JSON either.  error/code: the envelope's top-level fields;
\* data: "absent", "null" or "object"; jstatus/jerror: data.status, data.error.
Body(kind, error, code, data, jstatus, jerror) ==
    [kind |-> kind, error |-> error, code |-> code, data |-> data,
     jstatus |-> jstatus, jerror |-> jerror]

NoBody == Body("none", Absent, Absent, "absent", Absent, Absent)

OddBodies == { Body(k, Absent, Absent, "absent", Absent, Absent) :
                 k \in {"nonobject", "invalid", "nonjson"} }

ErrorBodies ==
    { Body("object", e, c, "absent", Absent, Absent) :
        e \in {Absent, "bad thing"}, c \in {Absent, "E_CODE"} } \cup OddBodies

OkBodies ==
    { Body("object", Absent, Absent, "object", s, Absent) : s \in JobStatuses \cup {Absent} }
    \cup { Body("object", Absent, Absent, "object", "failed", e) : e \in {Null, "disk full"} }
    \cup { Body("object", Absent, Absent, d, Absent, Absent) : d \in {"absent", "null"} }
    \cup OddBodies

\* What one network call comes back with: a transport failure before a
\* connection exists ("connect": refused, DNS, connect timeout), a transport
\* failure after the request was sent ("read": read timeout, broken
\* connection), or an HTTP response.
Outcome(class, status, retry_after, body) ==
    [class |-> class, status |-> status, retry_after |-> retry_after, body |-> body]

Outcomes ==
    { Outcome(c, NoStatus, 0, NoBody) : c \in {"connect", "read"} }
    \cup { Outcome("http", s, ra, b) :
             s \in ErrStatuses, ra \in RetryAfterValues, b \in ErrorBodies }
    \cup { Outcome("http", s, 0, b) : s \in OkStatuses, b \in OkBodies }

\* a smaller remote, for the polls and the logins: as Outcomes, the error
\* statuses being one that is never retried and one of the forcelist
FewErrStatuses == {404, 503}
FewOutcomes == { o \in Outcomes : o.class = "http" => o.status \in OkStatuses \cup FewErrStatuses }

\* the remote of the polls that are followed to their end: a refused
\* connection, an error response, and job records that are running or
\* completed
LiveOutcomes ==
    { o \in FewOutcomes :
        \/ o.class = "connect"
        \/ /\ o.status = 503 /\ o.retry_after = 0
           /\ o.body.kind = "object" /\ o.body.error # Absent /\ o.body.code # Absent
        \/ /\ o.status \in OkStatuses
           /\ o.body.kind = "object" /\ o.body.data = "object"
           /\ o.body.jstatus \in {"running", "completed"} }

\* what the history of a request keeps of an outcome
Seen(o) == [class |-> o.class, status |-> o.status]

\* str(e) of the exception a failed attempt ends in
CauseText(o) ==
    CASE o.class = "connect" -> "connection failed"
      [] o.class = "read" -> "read failed"
      [] o.body.kind = "nonjson" -> "unexpected content type"
      [] o.body.kind = "invalid" -> "invalid JSON"
      [] o.body.kind = "nonobject" -> "object has no attribute get"
      [] OTHER -> "error response"

\* ------------------------------------------------------- results and errors
\* the text of an exception: a format and what fills it.  n = NoStatus and
\* s = e = "" where the format has no such place.
Msg(fmt, n, s, e) == [fmt |-> fmt, n |-> n, s |-> s, e |-> e]
NoMsg == Msg("", NoStatus, "", "")

Result(kind, type, message, status_code, error_code, body) ==
    [kind |-> kind, type |-> type, message |-> message,
     status_code |-> status_code, error_code |-> error_code, body |-> body]

NoResult == Result("none", "", NoMsg, NoStatus, Absent, NoBody)
Return(body) == Result("return", "", NoMsg, NoStatus, Absent, body)
\* an exception of a type other than DataCloakError leaving the method
Escape(type, text) == Result("raise", type, Msg("{e}", NoStatus, "", text), NoStatus, Absent, NoBody)

\* class DataCloakError: status_code and error_code default to None
DataCloakError(message, status_code, error_code) ==
    Result("raise", "DataCloakError", message, status_code, error_code, NoBody)

\* ------------------------------------- DataCloakClient: requests + urllib3
\* Retry(total=max_retries, backoff_factor=1, status_forcelist=[...]) as
\* mounted on the session; everything not passed keeps urllib3's default.
backoff_factor == 1
status_forcelist == {429, 500, 502, 503, 504}
\* Retry.DEFAULT_ALLOWED_METHODS: POST and PATCH are not among them
allowed_methods == {"DELETE", "GET", "HEAD", "OPTIONS", "PUT", "TRACE"}
\* Retry.RETRY_AFTER_STATUS_CODES, used as respect_retry_after_header is True
RETRY_AFTER_STATUS_CODES == {413, 429, 503}
\* Retry.DEFAULT_BACKOFF_MAX
backoff_max == 120

\* Retry.is_retry(method, status_code, has_retry_after), `tot` being Retry.total
is_retry(m, status_code, has_retry_after, tot) ==
    /\ m \in allowed_methods
    /\ \/ status_code \in status_forcelist
       \/ /\ tot # 0
          /\ has_retry_after
          /\ status_code \in RETRY_AFTER_STATUS_CODES

\* Retry.get_backoff_time() after n consecutive failures: nothing before the
\* second try, then backoff_factor * 2^(n-1)
get_backoff_time(n) ==
    IF n <= 1 THEN 0 ELSE Min(backoff_max, backoff_factor * 2^(n - 1))

\* Retry.sleep(response): the Retry-After value if the response has one,
\* else the backoff
RetrySleep(o, n) ==
    IF o.class = "http" /\ o.retry_after # 0 THEN o.retry_after ELSE get_backoff_time(n)

\* does the adapter try again after outcome o (Retry.increment does not
\* raise)?  A failure after the request was sent is re-raised at once for a
\* method that is not allowed; any other counted failure ends the request when
\* total drops below zero.
SyncCounts(m, o, tot) ==
    CASE o.class = "connect" -> TRUE
      [] o.class = "read" -> m \in allowed_methods
      [] OTHER -> is_retry(m, o.status, o.retry_after # 0, tot)

\* "Request failed: {e}" of the sync client; it carries no status code
SyncRequestFailed(o) ==
    DataCloakError(Msg("Request failed: {e}", NoStatus, "", CauseText(o)), NoStatus, Absent)

\* the except clauses of DataCloakClient._request on a response that
\* raise_for_status() rejects
SyncHttpError(o) ==
    CASE o.body.kind = "object" ->
           DataCloakError(
               IF o.body.error = Absent
                 THEN Msg("{status} Error for url", o.status, "", "")
                 ELSE Msg("{error}", NoStatus, "", o.body.error),
               o.status, o.body.code)
      [] o.body.kind = "nonobject" ->
           Escape("AttributeError", CauseText(o))
      [] OTHER ->
           DataCloakError(Msg("{status} Error for url", o.status, "", ""), o.status, Absent)

\* return response.json() of DataCloakClient._request: the results the
\* installed requests can give (its JSONDecodeError is a RequestException
\* from 2.27 on, a bare ValueError before)
SyncDecode(o) ==
    IF o.body.kind \in {"object", "nonobject"}
      THEN {Return(o.body)}
      ELSE {SyncRequestFailed(o), Escape("ValueError", CauseText(o))}

\* what session.request + raise_for_status + json() make of the response the
\* adapter hands back
SyncFinish(o) ==
    IF o.status >= 400 THEN {SyncHttpError(o)} ELSE SyncDecode(o)

\* ------------------------------------ AsyncDataCloakClient: aiohttp + loop
\* asyncio.sleep(2 ** attempt)
AsyncBackoff(n) == 2^n

\* is the outcome of an attempt caught by `except Exception` (the retry
\* path)?  Transport failures are; so is whatever response.json() raises
\* that the inner except does not turn into a DataCloakError.
AsyncRetries(o) ==
    \/ o.class # "http"
    \/ /\ o.status >= 400
       /\ o.body.kind \in {"nonjson", "nonobject"}
    \/ /\ o.status < 400
       /\ o.body.kind \in {"nonjson", "invalid"}

\* the DataCloakError an error response is turned into (re-raised by
\* `except DataCloakError: raise`)
AsyncHttpError(o) ==
    IF o.body.kind = "object"
      THEN DataCloakError(
               IF o.body.error = Absent
                 THEN Msg("HTTP {status}", o.status, "", "")
                 ELSE Msg("{error}", NoStatus, "", o.body.error),
               o.status, o.body.code)
      ELSE DataCloakError(Msg("HTTP {status}", o.status, "", ""), o.status, Absent)

\* the loop left after its last pass without a raise: None is returned
AsyncFallsThrough(o, retries) == Return(NoBody)

\* "Request failed after {max_retries + 1} attempts: {e}"
AsyncRequestFailed(o, retries) ==
    DataCloakError(Msg("Request failed after {n} attempts: {e}", retries + 1, "", CauseText(o)),
                   NoStatus, Absent)

\* ------------------------------------------------------------ headers
\* A set of headers: the value of Content-Type and the token after
\* "Authorization: Bearer ", Absent where the header is not in the set.
Headers(ctype, auth) == [ctype |-> ctype, auth |-> auth]
NoHeaders == Headers(Absent, Absent)
JsonType == "application/json"
MultipartType == "multipart/form-data; boundary"

\* the default headers without the token
DefaultHeadersNoAuth(t) == Headers(JsonType, Absent)

\* the session's default headers as the constructor (sync) or
\* _ensure_session (async) sets them for token t: "if token:" leaves
\* Authorization out for None and for ''
DefaultHeaders(t) == Headers(JsonType, IF t = "" THEN Absent ELSE t)

\* kwargs['headers'] of DataCloakClient._request: for files, a copy of the
\* session's headers without Content-Type; else no headers argument
RequestHeaders(f, sh) ==
    IF f /\ sh.ctype # Absent THEN Headers(Absent, sh.auth) ELSE NoHeaders

\* requests.sessions.merge_setting(request.headers, session.headers): the
\* session's headers updated with the request's; a header the request's
\* mapping does not have keeps the session's value
merge_setting(rh, sh) ==
    Headers(IF rh.ctype # Absent THEN rh.ctype ELSE sh.ctype,
            IF rh.auth # Absent THEN rh.auth ELSE sh.auth)

\* PreparedRequest.prepare_body: the multipart content type is set only if
\* the headers have no Content-Type yet
prepare_body(f, h) ==
    IF f /\ h.ctype = Absent THEN Headers(MultipartType, h.auth) ELSE h

\* the headers session.request(method, url, **kwargs) prepares for the wire
Prepare(f, sh) == prepare_body(f, merge_setting(RequestHeaders(f, sh), sh))

\* every retry reading the session's headers afresh
SyncSendsLive(prep, sh) == sh

\* the adapter resends the prepared request on every retry
SyncSends(prep, sh) == prep

\* aiohttp adds the session's default headers to every call
AsyncSends(sh) == sh

\* ------------------------------------------------------------------ state
VARIABLES
    client,         \* "sync": DataCloakClient, "async": AsyncDataCloakClient
    max_retries,    \* the constructor's max_retries
    rpc,            \* _request: "idle", "sending" (about to call the network), "done"
    method,         \* the HTTP method of the request under way
    calls,          \* network calls made for it
    history,        \* what each of them came back with (urllib3's Retry.history)
    delays,         \* the sleeps between them, in order
    total,          \* sync: Retry.total still left
    attempt,        \* async: the loop variable
    result,         \* how _request ended
    response,       \* once _request ended: the response its last call got
    files,          \* the request under way has a files argument
    prepared,       \* sync: the headers of the prepared request
    issued,         \* the session's Authorization when the request began
    sent,           \* the headers each network call carried
    token,          \* self.token
    session_headers,\* session.headers / the aiohttp session's default headers
    lpc,            \* login() of another caller: "idle", "calling"
    last_login,     \* the token of the last successful login, Absent if none
    stale,          \* a login succeeded since the request under way began
    given,          \* the token the constructor was given
    login_response, \* what the last login() got from its _request
    uploaded,       \* upload_dataset has been called on this client
    twin,           \* an AsyncDataCloakClient given the same outcomes
    cancel_signal,  \* the caller of the poll has raised its cancellation signal
    args,           \* the arguments of analyze_sentiment
    json,           \* kwargs['json'] of the request, as encoded for the wire
    session,        \* self._session of the async client: NoSession or its number
    created,        \* how many aiohttp.ClientSession objects were created
    tasks,          \* the requests running together on the async client
    ppc,            \* poll_job_completion: "none", "loop", "fetching", "sleeping",
                    \* "Completed", "Failed", "Cancelled", "TimedOut", "Raised"
    job_id, interval, max_wait,
    now,            \* time.time()
    start_time,
    fetches,        \* get_job calls begun
    job_status,     \* the record the last get_job returned
    observed,       \* data.status of every record fetched, in order
    pollResult      \* how poll_job_completion ended

reqVars == <<rpc, method, calls, history, delays, total, attempt, result,
             response, files, prepared, issued, sent>>
keptVars == <<given, login_response, uploaded>>
authVars == <<token, session_headers, lpc, last_login, stale, keptVars>>
loopVars == <<session, created, tasks>>
callVars == <<twin, cancel_signal, args, json, loopVars>>
pollVars == <<ppc, job_id, interval, max_wait, now, start_time, fetches,
              job_status, observed, pollResult>>
vars == <<client, max_retries, reqVars, pollVars, authVars, callVars>>

JobIds == {"job-1"}

\* what the claims need of an HTTP response: its status and the kind of
\* its body; NoResponse where the call got none
Responded(o) ==
    IF o.class = "http" THEN [status |-> o.status, kind |-> o.body.kind]
    ELSE [status |-> NoStatus, kind |-> "none"]
NoResponse == [status |-> NoStatus, kind |-> "none"]

\* the twin before its request, no arguments, no JSON body
NoTwin == [rpc |-> "idle", calls |-> 0, attempt |-> 0, result |-> NoResult]
NoArgs == [text |-> Absent]
NoJson == [text |-> Absent]
\* self._session = None; a request that has not begun
NoSession == 0
Tasks == 1..NumTasks
Task(pc, att, used) == [pc |-> pc, attempt |-> att, used |-> used]
NewTask == Task("new", 0, NoSession)
NoLoginReply == [kind |-> "none", success |-> Absent, data |-> "absent", token |-> Absent]

\* a client constructed with token t (Absent: token=None, the default); no
\* request and no poll under way
Constructed(t) ==
    /\ client \in {"sync", "async"}
    /\ max_retries \in 0..MaxRetries
    /\ rpc = "idle" /\ method = "GET" /\ calls = 0
    /\ history = <<>> /\ delays = <<>>
    /\ total = max_retries /\ attempt = 0
    /\ result = NoResult
    /\ ppc = "none" /\ job_id = "job-1" /\ interval = 0 /\ max_wait = 0
    /\ now = 0 /\ start_time = 0
    /\ fetches = 0 /\ job_status = NoBody
    /\ observed = <<>> /\ pollResult = NoResult
    /\ response = NoResponse /\ files = FALSE
    /\ prepared = NoHeaders /\ issued = Absent /\ sent = <<>>
    /\ token = t
    /\ session_headers = DefaultHeaders(t)
    /\ lpc = "idle" /\ last_login = Absent /\ stale = FALSE
    /\ given = t /\ login_response = NoLoginReply /\ uploaded = FALSE
    /\ twin = NoTwin /\ cancel_signal = FALSE
    /\ json = NoJson
    /\ session = NoSession /\ created = 0
    /\ tasks = [k \in Tasks |-> NewTask]

\* both constructors with their default token; no call of analyze_sentiment
Init == Constructed(Absent) /\ args = NoArgs

\* what the remote may answer to the next network call
Replies == IF ppc = "none" THEN Outcomes ELSE FewOutcomes

\* _request is over and its frame gone
Idle ==
    /\ rpc' = "idle" /\ method' = "GET" /\ calls' = 0
    /\ history' = <<>> /\ delays' = <<>>
    /\ total' = max_retries /\ attempt' = 0
    /\ result' = NoResult
    /\ response' = NoResponse /\ files' = FALSE
    /\ prepared' = NoHeaders /\ issued' = Absent /\ sent' = <<>>

\* entry of _request(m, ..., files): a fresh Retry for the adapter, range()
\* from 0; the sync client's headers are prepared from the session's
BeginWith(m, f) ==
    /\ rpc' = "sending" /\ method' = m /\ calls' = 0
    /\ history' = <<>> /\ delays' = <<>>
    /\ total' = max_retries /\ attempt' = 0
    /\ result' = NoResult
    /\ response' = NoResponse /\ files' = f
    /\ prepared' = IF client = "sync" THEN Prepare(f, session_headers) ELSE NoHeaders
    /\ issued' = session_headers.auth
    /\ sent' = <<>>

\* entry of _request(m, ...) without files
Begin(m) == BeginWith(m, FALSE)

\* a public method other than the poller calls _request
StartRequest ==
    /\ rpc = "idle" /\ ppc = "none"
    /\ \E m \in Methods : Begin(m)
    /\ stale' = FALSE
    /\ UNCHANGED <<callVars, client, max_retries, pollVars, token, session_headers, lpc,
                   last_login, keptVars>>

\* DataCloakClient._request: one network call of session.request and what
\* urllib3, requests and the except clauses do with its outcome
SyncOn(o) ==
    /\ client = "sync" /\ rpc = "sending"
    /\   /\ calls' = calls + 1
         /\ history' = Append(history, Seen(o))
         /\ sent' = Append(sent, SyncSends(prepared, session_headers))
         /\ IF SyncCounts(method, o, total)
              THEN /\ total' = total - 1
                   /\ response' = IF total - 1 < 0 THEN Responded(o) ELSE response
                   /\ IF total - 1 < 0
                        THEN /\ rpc' = "done"
                             /\ result' = SyncRequestFailed(o)
                             /\ delays' = delays
                        ELSE /\ rpc' = "sending"
                             /\ result' = result
                             /\ delays' = Append(delays, RetrySleep(o, Len(history) + 1))
              ELSE /\ total' = total
                   /\ rpc' = "done"
                   /\ delays' = delays
                   /\ response' = Responded(o)
                   /\ result' \in IF o.class = "http" THEN SyncFinish(o)
                                  ELSE {SyncRequestFailed(o)}
    /\ UNCHANGED <<client, max_retries, method, attempt, files, prepared, issued,
                   pollVars, authVars>>

\* one network call of the sync client, the remote answering anything
SyncAttempt ==
    /\ \E o \in Replies : SyncOn(o)
    /\ UNCHANGED callVars

\* AsyncDataCloakClient._request: one iteration of the for loop
AsyncOn(o) ==
    /\ client = "async" /\ rpc = "sending"
    /\   /\ calls' = calls + 1
         /\ history' = Append(history, Seen(o))
         /\ sent' = Append(sent, AsyncSends(session_headers))
         /\ response' = IF AsyncRetries(o) /\ attempt < max_retries
                          THEN response ELSE Responded(o)
         /\ IF AsyncRetries(o)
              THEN IF attempt = max_retries
                     THEN /\ rpc' = "done"
                          /\ result' = AsyncRequestFailed(o, max_retries)
                          /\ UNCHANGED <<attempt, delays>>
                     ELSE /\ rpc' = "sending"
                          /\ delays' = Append(delays, AsyncBackoff(attempt))
                          /\ attempt' = attempt + 1
                          /\ result' = result
              ELSE /\ rpc' = "done"
                   /\ result' = IF o.status >= 400 THEN AsyncHttpError(o) ELSE Return(o.body)
                   /\ UNCHANGED <<attempt, delays>>
    /\ UNCHANGED <<client, max_retries, method, total, files, prepared, issued,
                   pollVars, authVars>>

\* one pass of the loop of the async client, the remote answering anything
AsyncAttempt ==
    /\ \E o \in Replies : AsyncOn(o)
    /\ UNCHANGED callVars

\* ------------------------------------------------------ analyze_sentiment
\* an optional argument the caller leaves out
Unspecified == "<unspecified>"
Texts == {"", "great"}
SentimentArgs ==
    [text : Texts,
     model : {Unspecified, "gpt-4"},
     include_emotions : {Unspecified, "True", "False"},
     include_keywords : {Unspecified, "True", "False"},
     language : {Unspecified, "fr"}]

\* the value a parameter with default d is bound to
Default(v, d) == IF v = Unspecified THEN d ELSE v

\* the two flags in each other's place
SyncSentimentDataSwapped(a) ==
    [text |-> a.text,
     options |-> [model |-> Default(a.model, "gpt-3.5-turbo"),
                  includeEmotions |-> Default(a.include_keywords, "False"),
                  includeKeywords |-> Default(a.include_emotions, "False"),
                  language |-> Default(a.language, "en")]]

\* the dict DataCloakClient.analyze_sentiment passes to _request
SyncSentimentData(a) ==
    [text |-> a.text,
     options |-> [model |-> Default(a.model, "gpt-3.5-turbo"),
                  includeEmotions |-> Default(a.include_emotions, "False"),
                  includeKeywords |-> Default(a.include_keywords, "False"),
                  language |-> Default(a.language, "en")]]

\* the dict AsyncDataCloakClient.analyze_sentiment passes to _request
AsyncSentimentData(a) ==
    [text |-> a.text,
     options |-> [model |-> Default(a.model, "gpt-3.5-turbo"),
                  includeEmotions |-> Default(a.include_emotions, "False"),
                  includeKeywords |-> Default(a.include_keywords, "False"),
                  language |-> Default(a.language, "en")]]

\* json.dumps of a Python bool
JsonBool(b) == IF b = "True" THEN "true" ELSE "false"

\* the JSON encoding of the dict given as json=data
Dumps(d) ==
    [text |-> d.text,
     options |-> [model |-> d.options.model,
                  includeEmotions |-> JsonBool(d.options.includeEmotions),
                  includeKeywords |-> JsonBool(d.options.includeKeywords),
                  language |-> d.options.language]]

\* analyze_sentiment(**args): the dict is built and given to
\* _request('POST', ...), which makes it the JSON body
AnalyzeSentiment ==
    /\ rpc = "idle" /\ ppc = "none"
    /\ args.text # Absent /\ json.text = Absent
    /\ json' = Dumps(IF client = "sync" THEN SyncSentimentData(args)
                     ELSE AsyncSentimentData(args))
    /\ Begin("POST")
    /\ UNCHANGED <<loopVars, client, max_retries, pollVars, authVars, twin, cancel_signal, args>>

\* ------------------------------------- both clients on the same outcomes
\* one pass of the loop of AsyncDataCloakClient._request on the twin, the
\* remote answering o
AsyncLoop(tw, o) ==
    LET called == [tw EXCEPT !.calls = @ + 1] IN
    IF AsyncRetries(o)
      THEN IF tw.attempt = max_retries
             THEN [called EXCEPT !.rpc = "done",
                                 !.result = AsyncRequestFailed(o, max_retries)]
             ELSE [called EXCEPT !.attempt = @ + 1]
      ELSE [called EXCEPT !.rpc = "done",
                          !.result = IF o.status >= 400 THEN AsyncHttpError(o)
                                     ELSE Return(o.body)]

\* the same request is made on a DataCloakClient and on an
\* AsyncDataCloakClient with the same max_retries
BothStart ==
    /\ client = "sync" /\ rpc = "idle" /\ twin.rpc = "idle"
    /\ \E m \in Methods : Begin(m)
    /\ twin' = [NoTwin EXCEPT !.rpc = "sending"]
    /\ UNCHANGED <<loopVars, client, max_retries, pollVars, authVars, cancel_signal, args, json>>

\* the next network call of both requests gets the same outcome
BothAttempt ==
    /\ twin.rpc = "sending"
    /\ \E o \in Outcomes : SyncOn(o) /\ twin' = AsyncLoop(twin, o)
    /\ UNCHANGED <<loopVars, cancel_signal, args, json>>

\* the async request is over, the sync one goes on
SyncAlone ==
    /\ twin.rpc = "done"
    /\ SyncAttempt

\* the sync request is over, the async one goes on
AsyncAlone ==
    /\ rpc = "done" /\ twin.rpc = "sending"
    /\ \E o \in Outcomes : twin' = AsyncLoop(twin, o)
    /\ UNCHANGED <<client, max_retries, reqVars, pollVars, authVars, cancel_signal,
                   args, json, loopVars>>

\* ---------------------------------- requests together on one async client
\* a session made on every call
SessionMissingAlways(s) == TRUE

\* _ensure_session: if self._session is None
SessionMissing(s) == s = NoSession

\* _ensure_session, which has no await: a ClientSession is created and
\* assigned if there is none; what self._session and the count of created
\* sessions are afterwards
EnsureSession(s, n) ==
    IF SessionMissing(s) THEN [session |-> n + 1, created |-> n + 1]
    ELSE [session |-> s, created |-> n]

\* __aenter__ of "async with": await self._ensure_session(), before any of
\* the requests
AEnter ==
    /\ client = "async"
    /\ session = NoSession /\ \A t \in Tasks : tasks[t].pc = "new"
    /\ session' = EnsureSession(session, created).session
    /\ created' = EnsureSession(session, created).created
    /\ UNCHANGED <<client, max_retries, reqVars, pollVars, authVars, twin, cancel_signal,
                   args, json, tasks>>

\* a request of the gather gets to run: _request up to its first await that
\* suspends, which is the network call on self._session
TaskBegin(t) ==
    /\ client = "async" /\ tasks[t].pc = "new"
    /\ session' = EnsureSession(session, created).session
    /\ created' = EnsureSession(session, created).created
    /\ tasks' = [tasks EXCEPT ![t] = Task("awaiting", 0, session')]

\* the network call of a request is over: the request returns or raises,
\* or, retrying, suspends in asyncio.sleep
TaskResume(t) ==
    /\ tasks[t].pc = "awaiting"
    /\ \/ tasks' = [tasks EXCEPT ![t].pc = "done"]
       \/ /\ tasks[t].attempt < max_retries
          /\ tasks' = [tasks EXCEPT ![t].pc = "sleeping"]
    /\ UNCHANGED <<session, created>>

\* the sleep of a retrying request is over: the next pass of its loop calls
\* the network on self._session
TaskWake(t) ==
    /\ tasks[t].pc = "sleeping"
    /\ tasks' = [tasks EXCEPT ![t] = Task("awaiting", @.attempt + 1, session)]
    /\ UNCHANGED <<session, created>>

\* what the requests of the gather leave alone
gatherKept == <<client, max_retries, reqVars, pollVars, authVars, twin, cancel_signal,
                args, json>>

\* the event loop runs one of the requests to its next suspension
TaskBegins ==
    /\ \E t \in Tasks : TaskBegin(t)
    /\ UNCHANGED gatherKept

TaskResumes ==
    /\ \E t \in Tasks : TaskResume(t)
    /\ UNCHANGED gatherKept

TaskWakes ==
    /\ \E t \in Tasks : TaskWake(t)
    /\ UNCHANGED gatherKept

\* ------------------------------------------------- upload_dataset, login
\* Content-Type deleted from the session's own headers
AfterFilesBranchInPlace(sh) == Headers(Absent, sh.auth)

\* the files branch of _request deletes Content-Type from temp_headers, a
\* copy: the session's own headers are what they were
AfterFilesBranch(sh) == sh

\* upload_dataset: a POST with a files argument (DataCloakClient only)
StartUpload ==
    /\ client = "sync" /\ rpc = "idle" /\ ppc = "none"
    /\ BeginWith("POST", TRUE)
    /\ session_headers' = AfterFilesBranch(session_headers)
    /\ stale' = FALSE
    /\ uploaded' = TRUE
    /\ UNCHANGED <<callVars, client, max_retries, pollVars, token, lpc, last_login,
                   given, login_response>>

\* one network call of a request or an upload of the client that logs in
AuthAttempt ==
    /\ \E o \in FewOutcomes : SyncOn(o)
    /\ UNCHANGED callVars

\* the caller takes the result of _request; the next call may begin
RequestReturn ==
    /\ rpc = "done" /\ ppc = "none"
    /\ Idle
    /\ UNCHANGED <<callVars, client, max_retries, pollVars, authVars>>

ConstructorTokens == {Absent, "", "tok-A"}
LoginTokens == {"tok-B", "tok-C"}

\* how the _request of login() ends: it raises, or returns the decoded
\* body with its success, data and data.token
LoginReply(kind, success, data, tok) ==
    [kind |-> kind, success |-> success, data |-> data, token |-> tok]
LoginReplies ==
    {LoginReply("raise", Absent, "absent", Absent)}
    \cup {LoginReply("return", "true", "object", t) : t \in LoginTokens \cup {Absent, ""}}
    \cup {LoginReply("return", sc, "object", "tok-B") : sc \in {"false", Absent}}
    \cup {LoginReply("return", "true", d, Absent) : d \in {"absent", "null"}}

\* the success flag not looked at
LoginSucceedsAnyFlag(r) ==
    /\ r.kind = "return"
    /\ r.data = "object" /\ r.token \notin {Absent, ""}

\* response.get('success') and response.get('data', {}).get('token')
LoginSucceeds(r) ==
    /\ r.kind = "return" /\ r.success = "true"
    /\ r.data = "object" /\ r.token \notin {Absent, ""}

\* the Authorization header left as it was
LoginHeadersKept(sh, t) == sh

\* self.session.headers['Authorization'] = f'Bearer {self.token}'
LoginHeaders(sh, t) == [sh EXCEPT !.auth = t]

\* login() is called, by the caller of the requests or by another thread
\* of the program; its own _request is under way
LoginCall ==
    /\ client = "sync" /\ lpc = "idle"
    /\ lpc' = "calling"
    /\ login_response' = NoLoginReply
    /\ UNCHANGED <<callVars, client, max_retries, reqVars, pollVars, token, session_headers,
                   last_login, stale, given, uploaded>>

\* the _request of login() ended with r; on success the token and the
\* session's header are replaced
LoginReturn ==
    /\ lpc = "calling"
    /\ lpc' = "idle"
    /\ \E r \in LoginReplies :
         /\ login_response' = r
         /\ IF LoginSucceeds(r)
           THEN /\ token' = r.token
                /\ session_headers' = LoginHeaders(session_headers, token')
                /\ last_login' = r.token
                /\ stale' = (stale \/ rpc # "idle")
           ELSE UNCHANGED <<token, session_headers, last_login, stale>>
    /\ UNCHANGED <<callVars, client, max_retries, reqVars, pollVars, given, uploaded>>

\* ------------------------------------------------- poll_job_completion
\* job_status.get('data', {}).get('status') of a decoded record; Absent is
\* Python's None
StatusOf(body) == IF body.data = "object" THEN body.jstatus ELSE Absent

\* the attribute lookups of the loop body fail on a record that is no JSON
\* object or whose data is null
Unreadable(body) == body.kind # "object" \/ body.data = "null"

\* the server's text dropped
ErrorOfGeneric(body) == "Job failed"

\* job_status.get('data', {}).get('error', 'Job failed') as the f-string
\* prints it
ErrorOf(body) ==
    CASE body.jerror = Absent -> "Job failed"
      [] body.jerror = Null -> "None"
      [] OTHER -> body.jerror

TimedOutError(job, wait) ==
    DataCloakError(Msg("Job {s} did not complete within {n} seconds", wait, job, ""),
                   NoStatus, Absent)
FailedError(job, body) ==
    DataCloakError(Msg("Job {s} failed: {e}", NoStatus, job, ErrorOf(body)), NoStatus, Absent)
CancelledError(job) ==
    DataCloakError(Msg("Job {s} was cancelled", NoStatus, job, ""), NoStatus, Absent)

\* the deadline test one second late
ExpiredLate(t, start, wait) == t - start > wait + 1

\* a deadline that never passes
ExpiredNever(t, start, wait) == FALSE

\* the deadline test at the top of the loop
Expired(t, start, wait) == t - start > wait

\* the chain going back to the top of the loop without the sleep
ClassifyNoSleep(status) ==
    CASE status = "completed" -> "Completed"
      [] status = "failed" -> "Failed"
      [] status = "cancelled" -> "Cancelled"
      [] OTHER -> "loop"

\* the chain without its `completed` branch
ClassifyNoCompleted(status) ==
    CASE status = "failed" -> "Failed"
      [] status = "cancelled" -> "Cancelled"
      [] OTHER -> "sleeping"

\* the chain without its `cancelled` branch
ClassifyNoCancelled(status) ==
    CASE status = "completed" -> "Completed"
      [] status = "failed" -> "Failed"
      [] OTHER -> "sleeping"

\* the if/elif chain on the fetched status: where the poll goes
Classify(status) ==
    CASE status = "completed" -> "Completed"
      [] status = "failed" -> "Failed"
      [] status = "cancelled" -> "Cancelled"
      [] OTHER -> "sleeping"

\* the error of the fetch replaced by one of the poll's own
FetchRaisedWrapped(r) ==
    DataCloakError(Msg("Polling failed: {e}", 0, "", "fetch failed"), NoStatus, Absent)

\* get_job is called outside any try: what it raises leaves
\* poll_job_completion as it is
FetchRaised(r) == r

\* cancel_job's method
CancelJobMethod == "DELETE"

\* get_job: _request('GET', f'/api/jobs/{job_id}')
GetJobMethod == "GET"

\* poll_job_completion(job, iv, mw) is called: start_time = time.time()
PollStart ==
    /\ ppc = "none" /\ rpc = "idle"
    /\ \E j \in JobIds, iv \in 0..MaxInterval, mw \in 0..MaxWait :
         /\ job_id' = j /\ interval' = iv /\ max_wait' = mw
    /\ start_time' = now
    /\ ppc' = "loop"
    /\ UNCHANGED <<callVars, client, max_retries, reqVars, now, fetches, job_status, observed,
                   pollResult, authVars>>

\* top of the loop: raise on a passed deadline, else call get_job, which is
\* _request('GET', ...)
PollCheck ==
    /\ ppc = "loop"
    /\ IF Expired(now, start_time, max_wait)
         THEN /\ ppc' = "TimedOut"
              /\ pollResult' = TimedOutError(job_id, max_wait)
              /\ UNCHANGED <<reqVars, fetches>>
         ELSE /\ fetches < MaxFetches
              /\ ppc' = "fetching"
              /\ fetches' = fetches + 1
              /\ Begin(GetJobMethod)
              /\ pollResult' = pollResult
    /\ UNCHANGED <<callVars, client, max_retries, job_id, interval, max_wait, now, start_time,
                   job_status, observed, authVars>>

\* get_job is back: an exception goes on to the caller, a record is read
PollFetched ==
    /\ ppc = "fetching" /\ rpc = "done"
    /\ Idle
    /\ IF result.kind = "raise"
         THEN /\ ppc' = "Raised"
              /\ pollResult' = FetchRaised(result)
              /\ UNCHANGED <<job_status, observed>>
         ELSE IF Unreadable(result.body)
         THEN /\ ppc' = "Raised"
              /\ pollResult' = Escape("AttributeError", "object has no attribute get")
              /\ job_status' = result.body
              /\ observed' = observed
         ELSE /\ job_status' = result.body
              /\ observed' = Append(observed, StatusOf(result.body))
              /\ ppc' = Classify(StatusOf(result.body))
              /\ pollResult' =
                   CASE Classify(StatusOf(result.body)) = "Completed" -> Return(result.body)
                     [] Classify(StatusOf(result.body)) = "Failed" -> FailedError(job_id, result.body)
                     [] Classify(StatusOf(result.body)) = "Cancelled" -> CancelledError(job_id)
                     [] OTHER -> pollResult
    /\ UNCHANGED <<callVars, client, max_retries, job_id, interval, max_wait, now, start_time, fetches,
                   authVars>>

\* time.sleep(interval) / await asyncio.sleep(interval)
PollSleep ==
    /\ ppc = "sleeping"
    /\ now' = Min(now + interval, MaxTime)
    /\ ppc' = "loop"
    /\ UNCHANGED <<callVars, client, max_retries, reqVars, job_id, interval, max_wait, start_time,
                   fetches, job_status, observed, pollResult, authVars>>

\* the clock moves on while a poll is under way or over (network calls,
\* backoff sleeps, scheduling)
Tick ==
    /\ ppc # "none"
    /\ now < MaxTime
    /\ now' = now + 1
    /\ UNCHANGED <<callVars, client, max_retries, reqVars, ppc, job_id, interval, max_wait,
                   start_time, fetches, job_status, observed, pollResult, authVars>>

\* the caller of a poll under way raises its cancellation signal; the
\* poller has no parameter for it and reads nothing the caller can set
Signal ==
    /\ ppc \in {"loop", "fetching", "sleeping"}
    /\ ~cancel_signal
    /\ cancel_signal' = TRUE
    /\ UNCHANGED <<loopVars, client, max_retries, reqVars, pollVars, authVars, twin, args, json>>

\* one call of a public method that is a single _request
Next ==
    \/ StartRequest
    \/ SyncAttempt
    \/ AsyncAttempt

Spec == Init /\ [][Next]_vars

\* one call of poll_job_completion, its get_job calls going through _request
PollInit == Init /\ max_retries <= PollRetries

PollNext ==
    \/ PollStart
    \/ PollCheck
    \/ SyncAttempt
    \/ AsyncAttempt
    \/ PollFetched
    \/ PollSleep
    \/ Tick

SpecPoll == PollInit /\ [][PollNext]_vars

\* the same poll where nothing blocks for ever: every network call comes
\* back, the poll's own statements and its sleep are carried out, and the
\* clock moves on
LiveSyncAttempt ==
    /\ \E o \in LiveOutcomes : SyncOn(o)
    /\ UNCHANGED callVars

LiveAsyncAttempt ==
    /\ \E o \in LiveOutcomes : AsyncOn(o)
    /\ UNCHANGED callVars

LiveNext ==
    \/ PollStart
    \/ PollCheck
    \/ LiveSyncAttempt
    \/ LiveAsyncAttempt
    \/ PollFetched
    \/ PollSleep
    \/ Tick

PollFairness ==
    /\ WF_vars(PollCheck) /\ WF_vars(PollFetched) /\ WF_vars(PollSleep)
    /\ WF_vars(LiveSyncAttempt) /\ WF_vars(LiveAsyncAttempt)
    /\ WF_vars(Tick)

SpecPollLive == PollInit /\ [][LiveNext]_vars /\ PollFairness

\* requests, uploads and logins of one DataCloakClient, constructed with or
\* without a token (the async client has neither login nor upload)
AuthInit == /\ \E t \in ConstructorTokens : Constructed(t)
            /\ client = "sync"
            /\ max_retries <= AuthRetries
            /\ args = NoArgs

AuthNext ==
    \/ StartRequest
    \/ StartUpload
    \/ AuthAttempt
    \/ RequestReturn
    \/ LoginCall
    \/ LoginReturn

SpecAuth == AuthInit /\ [][AuthNext]_vars

\* one call of DataCloakClient.poll_job_completion whose caller may raise
\* a cancellation signal
CancelInit == PollInit /\ client = "sync"

CancelNext ==
    \/ PollStart
    \/ PollCheck
    \/ SyncAttempt
    \/ PollFetched
    \/ PollSleep
    \/ Tick
    \/ Signal

SpecCancel == CancelInit /\ [][CancelNext]_vars

\* one call of analyze_sentiment on either client, with any arguments
SentimentInit == Constructed(Absent) /\ args \in SentimentArgs

SentimentNext == AnalyzeSentiment

SpecSentiment == SentimentInit /\ [][SentimentNext]_vars

\* several requests started together (asyncio.gather) on one
\* AsyncDataCloakClient, entered with "async with" or not
SessionInit ==
    /\ \E t \in ConstructorTokens : Constructed(t)
    /\ client = "async"
    /\ args = NoArgs

SessionNext ==
    \/ AEnter
    \/ TaskBegins
    \/ TaskResumes
    \/ TaskWakes

SpecSession == SessionInit /\ [][SessionNext]_vars

\* one request made on both clients, the remote answering both alike
BothInit == Init /\ client = "sync"

BothNext ==
    \/ BothStart
    \/ BothAttempt
    \/ SyncAlone
    \/ AsyncAlone

SpecBoth == BothInit /\ [][BothNext]_vars

\* ======================================================= the request layer
\* the request under way has ended
Done == rpc = "done"
\* every network call of the request came back with HTTP status s
AllStatus(s) ==
    /\ history # <<>>
    /\ \A i \in DOMAIN history : history[i].class = "http" /\ history[i].status = s
\* every network call of the request ended in a transport failure
AllTransport ==
    /\ history # <<>>
    /\ \A i \in DOMAIN history : history[i].class # "http"

\* C1: a request whose every attempt is answered with one of 429, 500, 502,
\* 503, 504 ends, in either client and for every method, after exactly
\* max_retries + 1 network calls, and ends by raising.
C1_RetryableStatusAttempts ==
    \A s \in {429, 500, 502, 503, 504} :
        (Done /\ AllStatus(s)) => (calls = max_retries + 1 /\ result.kind = "raise")

\* C2: a request whose first answer is an HTTP error status other than 429,
\* 500, 502, 503, 504 is over after that one network call, has slept no
\* backoff and has raised, whatever max_retries is.
C2_NonRetryableStatusOneCall ==
    ( /\ history # <<>>
      /\ history[1].class = "http"
      /\ history[1].status >= 400
      /\ history[1].status \notin {429, 500, 502, 503, 504} )
    => (Done /\ calls = 1 /\ delays = <<>> /\ result.kind = "raise")

\* C3: a request whose every attempt ends in a transport failure makes
\* exactly max_retries + 1 attempts and then raises a DataCloakError without
\* status code; a request that has returned a decoded body made no attempt
\* after the successful one.
C3_TransportFailureAttempts ==
    /\ (Done /\ AllTransport) =>
         /\ calls = max_retries + 1
         /\ result.kind = "raise"
         /\ result.type = "DataCloakError"
         /\ result.status_code = NoStatus
    /\ (Done /\ result.kind = "return") =>
         /\ history[Len(history)].class = "http"
         /\ history[Len(history)].status < 400
         /\ \A i \in 1..(Len(history) - 1) :
              ~(history[i].class = "http" /\ history[i].status < 400)

\* C4: when the request has used up all max_retries + 1 attempts on failures,
\* the error raised is made from the last failure and its message states the
\* number of attempts, max_retries + 1, in both clients.
C4_ExhaustedErrorStatesAttempts ==
    (Done /\ AllTransport /\ calls = max_retries + 1) =>
        /\ result.kind = "raise"
        /\ result.message.fmt = "Request failed after {n} attempts: {e}"
        /\ result.message.n = max_retries + 1
        /\ result.message.e = IF history[Len(history)].class = "connect"
                                THEN "connection failed" ELSE "read failed"

\* C5: the sleeps of one request are 1, 2, 4, ... seconds in order (the i-th
\* sleep, after 0-indexed attempt i - 1, is 1 * 2^(i-1)), one after every
\* failed attempt but the last, none after the final attempt.
C5_ExponentialBackoffFromOne ==
    /\ \A i \in DOMAIN delays : delays[i] = 2^(i - 1)
    /\ Len(delays) = IF Done THEN calls - 1 ELSE calls

\* ================================================================ the poller
Last(q) == q[Len(q)]
\* a terminal status has been fetched
TerminalObserved == \E i \in DOMAIN observed : observed[i] \in TerminalStatuses
\* the fetches so far gave non-terminal statuses and then `st`
EndsWith(st) ==
    /\ observed # <<>>
    /\ Last(observed) = st
    /\ \A i \in 1..(Len(observed) - 1) : observed[i] \notin TerminalStatuses

\* C6: with interval = 0, when the successive fetches have given k - 1
\* non-terminal statuses and then `completed`, the poll has returned the
\* record of that k-th fetch, after exactly k fetches, and has not timed out.
C6_CompletedAfterKFetches ==
    (interval = 0 /\ EndsWith("completed")) =>
        /\ ppc = "Completed"
        /\ fetches = Len(observed)
        /\ pollResult.kind = "return"
        /\ pollResult.body = job_status
        /\ job_status.kind = "object" /\ job_status.data = "object"
        /\ job_status.jstatus = "completed"

C6_Witness ==
    /\ ppc = "Completed" /\ interval = 0 /\ fetches = 3
    /\ observed = <<"queued", "running", "completed">>

\* C7: a poll that ends timed out raises a DataCloakError naming the job and
\* max_wait, has seen no terminal status, and ends when the clock is past
\* start_time + max_wait; every fetch starts at a time no later than
\* start_time + max_wait, and a loop iteration begun later starts none.
C7_TimeoutNoLateFetch ==
    /\ [](ppc = "TimedOut" =>
            /\ pollResult.kind = "raise" /\ pollResult.type = "DataCloakError"
            /\ pollResult.message.fmt = "Job {s} did not complete within {n} seconds"
            /\ pollResult.message.s = job_id /\ pollResult.message.n = max_wait
            /\ now > start_time + max_wait
            /\ ~TerminalObserved)
    /\ [][fetches' # fetches => now <= start_time + max_wait]_vars
    /\ [][(ppc = "loop" /\ now > start_time + max_wait /\ ppc' # ppc) =>
            (ppc' = "TimedOut" /\ fetches' = fetches)]_vars

C7_Witness ==
    /\ ppc = "TimedOut" /\ fetches = 2 /\ max_wait = 1
    /\ observed = <<"queued", "running">>

C9_TerminalIsFinal ==
    /\ [](EndsWith("cancelled") =>
            /\ ppc = "Cancelled"
            /\ pollResult.kind = "raise" /\ pollResult.type = "DataCloakError"
            /\ pollResult.message.fmt = "Job {s} was cancelled"
            /\ pollResult.message.s = job_id)
    /\ [](TerminalObserved =>
            /\ Last(observed) \in TerminalStatuses
            /\ ppc = (CASE Last(observed) = "completed" -> "Completed"
                        [] Last(observed) = "failed" -> "Failed"
                        [] OTHER -> "Cancelled"))
    /\ [][TerminalObserved =>
            /\ fetches' = fetches /\ observed' = observed
            /\ ppc' = ppc /\ pollResult' = pollResult]_vars

C9_Witness ==
    /\ ppc = "Cancelled" /\ fetches = 2 /\ now > start_time
    /\ observed = <<"running", "cancelled">>

\* C10: no poll ends timed out without having begun a fetch, whatever
\* interval and max_wait are.
C10_FetchBeforeTimeout ==
    ppc = "TimedOut" => fetches >= 1

\* ====================================================== headers and login
\* C11: every request sent with a multipart (files) payload goes out without
\* "Content-Type: application/json" among its headers.
C11_MultipartWithoutJsonType ==
    files => \A i \in DOMAIN sent : sent[i].ctype # JsonType

\* C12: once a login succeeded, every call of a request begun after it
\* carries "Authorization: Bearer <the new token>", whatever token the
\* client was constructed with, uploads included.
C12_LoginTokenOnLaterCalls ==
    (last_login # Absent /\ ~stale) =>
        \A i \in DOMAIN sent : sent[i].auth = last_login

C12_Witness ==
    /\ last_login # Absent /\ ~stale /\ files
    /\ Len(sent) >= 2 /\ sent[2].auth = last_login

\* C13: a login that replaces the credential while a request is in flight
\* does not reach that request: every call of it, retries included, carries
\* the Authorization the request began with.
C13_InFlightKeepsCredential ==
    \A i \in DOMAIN sent : sent[i].auth = issued

C13_Witness ==
    /\ stale /\ Len(sent) >= 2
    /\ session_headers.auth # issued /\ sent[2].auth = issued

\* ============================================================ error shape
\* C14: every failure that leaves _request, in either client and whatever
\* the network did, is a DataCloakError.
C14_EveryFailureIsApiError ==
    (Done /\ result.kind = "raise") => result.type = "DataCloakError"

\* C15: the DataCloakError raised carries a status code exactly when the
\* last thing the network did was an HTTP response: that response's status
\* if it was >= 400 (a retryable one after the retries included), and none
\* if no response was received.
C15_StatusCodeIffHttpFailure ==
    (Done /\ result.kind = "raise" /\ result.type = "DataCloakError") =>
        /\ (Last(history).class = "http" /\ Last(history).status >= 400) =>
               result.status_code = Last(history).status
        /\ Last(history).class # "http" => result.status_code = NoStatus

\* C20: a response with status >= 400 whose body is not JSON ends the
\* request at once (one call for a status that is never retried) with a
\* DataCloakError whose status_code is the response's status.
C20_UnparseableErrorBody ==
    (Done /\ response.status >= 400 /\ response.kind \in {"invalid", "nonjson"}) =>
        /\ result.kind = "raise" /\ result.type = "DataCloakError"
        /\ result.status_code = response.status
        /\ response.status \notin status_forcelist => calls = 1

\* ======================================================= sync and async
\* C16: given the same sequence of remote outcomes, the sync and the async
\* client make the same number of network calls and end alike: the same
\* decoded body, or an error with the same type, status code and error code.
C16_SyncAsyncAlike ==
    (rpc = "done" /\ twin.rpc = "done") =>
        /\ calls = twin.calls
        /\ result.kind = twin.result.kind
        /\ result.type = twin.result.type
        /\ result.status_code = twin.result.status_code
        /\ result.error_code = twin.result.error_code
        /\ result.body = twin.result.body

\* ============================================== the poller and the remote
\* C17: once the caller has raised the cancellation signal, the poller
\* begins no further status fetch.
C17_NoFetchAfterSignal ==
    [][cancel_signal => fetches' = fetches]_vars

\* C18: a poll only reads the remote job: every request it has under way
\* is a GET, never a DELETE or another method, and a poll that timed out
\* has left no request behind.
C18_PollOnlyFetches ==
    /\ (ppc # "none" /\ rpc # "idle") => method = "GET"
    /\ ppc = "TimedOut" => rpc = "idle"

C18_Witness ==
    ppc = "TimedOut" /\ fetches >= 2 /\ calls = 0

\* ====================================================== analyze_sentiment
\* C19: the body of analyze_sentiment is {text, options{model,
\* includeEmotions, includeKeywords, language}} with the caller's values,
\* includeEmotions and includeKeywords false and language "en" where the
\* caller gives none; both clients build the same body from the same
\* arguments.
C19_SentimentBody ==
    json.text # Absent =>
        /\ DOMAIN json = {"text", "options"}
        /\ DOMAIN json.options =
               {"model", "includeEmotions", "includeKeywords", "language"}
        /\ json.text = args.text
        /\ args.model # Unspecified => json.options.model = args.model
        /\ json.options.includeEmotions =
               (IF args.include_emotions = "True" THEN "true" ELSE "false")
        /\ json.options.includeKeywords =
               (IF args.include_keywords = "True" THEN "true" ELSE "false")
        /\ json.options.language =
               (IF args.language = Unspecified THEN "en" ELSE args.language)

C19_Witness ==
    /\ json.text # Absent /\ client = "async"
    /\ args.include_emotions = Unspecified /\ args.include_keywords = "True"
    /\ args.language = Unspecified /\ json.options.language = "en"

\* ======================================================== the poll's loop
\* C21: a fetched status that is not completed, failed or cancelled (queued,
\* running, an unknown string, no status field) puts the poll to sleep; the
\* sleep lasts interval, begins no fetch and leads to the deadline test, and
\* every fetch is begun by a deadline test that found the deadline not
\* passed: between two fetches there is one sleep and one deadline test.
C21_SleepOnceThenCheck ==
    /\ [][(ppc = "fetching" /\ observed' # observed
             /\ Last(observed') \notin TerminalStatuses) => ppc' = "sleeping"]_vars
    /\ [][ppc = "sleeping" => fetches' = fetches]_vars
    /\ [][(ppc = "sleeping" /\ ppc' # ppc) =>
            /\ ppc' = "loop"
            /\ now' = now + interval \/ now' = MaxTime]_vars
    /\ [][(ppc = "loop" /\ ppc' # ppc) => ppc' \in {"fetching", "TimedOut"}]_vars
    /\ [][fetches' # fetches =>
            /\ ppc = "loop" /\ ppc' = "fetching"
            /\ fetches' = fetches + 1
            /\ now - start_time <= max_wait]_vars

C21_Witness ==
    /\ ppc = "fetching" /\ fetches = 2 /\ interval = 1
    /\ observed = <<Absent>> /\ now = start_time + 1

\* the poll is over: it returned or raised
PollEnded == ppc \in {"Completed", "Failed", "Cancelled", "TimedOut", "Raised"}

\* C22: every poll that was started ends, in one of Completed (return),
\* Failed, Cancelled, TimedOut (raise) or with the error of a fetch, also
\* when the job never leaves a non-terminal status and when interval = 0;
\* and once it has ended it stays as it ended.
C22_PollTerminates ==
    /\ (ppc # "none") ~> PollEnded
    /\ [][PollEnded => (ppc' = ppc /\ pollResult' = pollResult)]_vars

C22_Witness ==
    /\ ppc = "TimedOut" /\ interval = 0 /\ fetches = 3
    /\ observed = <<"running", "running", "running">>

\* C25: an error raised by a fetch ends the poll at once: the poll raises
\* that same error (not a timeout, not a terminal-job error), reads no
\* status from it and begins no further fetch.
C25_FetchErrorPropagates ==
    /\ [][(ppc = "fetching" /\ rpc = "done" /\ result.kind = "raise" /\ ppc' # ppc) =>
            /\ ppc' = "Raised" /\ pollResult' = result
            /\ fetches' = fetches /\ observed' = observed]_vars
    /\ [][ppc = "Raised" =>
            (ppc' = ppc /\ pollResult' = pollResult /\ fetches' = fetches)]_vars
    /\ [](ppc = "Raised" => (pollResult.kind = "raise" /\ rpc = "idle"))

C25_Witness ==
    /\ ppc = "Raised" /\ fetches = 2 /\ observed = <<"running">>
    /\ pollResult.type = "DataCloakError" /\ pollResult.status_code = 404
    /\ pollResult.error_code = "E_CODE"

\* ===================================================== the async request
\* C26: AsyncDataCloakClient._request makes at most max_retries + 1 calls
\* and ends in one of two ways: it returns the decoded body of a response
\* with a status below 400, or it raises DataCloakError; it never returns
\* without a body, and once it has a result it makes no further attempt.
C26_AsyncReturnsOrRaises ==
    client = "async" =>
        /\ calls <= max_retries + 1
        /\ result.kind # "none" => rpc = "done"
        /\ rpc = "done" =>
              \/ /\ result.kind = "return" /\ result.body # NoBody
                 /\ response.status \in 1..399
                 /\ result.body.kind = response.kind
              \/ /\ result.kind = "raise" /\ result.type = "DataCloakError"

C26_Witness ==
    /\ client = "async" /\ rpc = "done" /\ max_retries = 2 /\ calls = 3
    /\ result.kind = "return" /\ result.body.kind = "object"
    /\ history[1].class = "read" /\ history[2].class = "http"

\* ================================================== the session's state
\* the credential a token field stands for: None and '' are no credential
Held(t) == IF t = "" THEN Absent ELSE t

\* C23: the credential the session holds is the token given at
\* construction or, after a successful login, the token of the last one;
\* the token field and the session's Authorization header agree; and every
\* call of a request begun under the credential now held carries
\* "Authorization: Bearer <t>" if that credential is t and no Authorization
\* if there is none.
C23_CredentialOnRequests ==
    /\ token = (IF last_login # Absent THEN last_login ELSE given)
    /\ session_headers.auth = Held(token)
    /\ ~stale => \A i \in DOMAIN sent : sent[i].auth = Held(token)
    /\ (~stale /\ rpc = "sending" /\ client = "sync") => prepared.auth = Held(token)

C23_Witness ==
    /\ given = "tok-A" /\ last_login = Absent /\ token = "tok-A"
    /\ lpc = "idle" /\ login_response.kind = "raise"
    /\ Len(sent) >= 2 /\ sent[2].auth = "tok-A"

\* C24: the credential and the session's default headers change only when
\* a login() returns whose response has success true and a non-empty
\* data.token, and then to that token; requests (verify_token and every
\* domain method), uploads, and a login() that raised or whose response has
\* no success or no token leave them as they were.
C24_OnlyLoginChangesSession ==
    [][(token' # token \/ session_headers' # session_headers) =>
          /\ lpc = "calling" /\ lpc' = "idle"
          /\ login_response'.kind = "return" /\ login_response'.success = "true"
          /\ login_response'.data = "object"
          /\ login_response'.token \notin {Absent, ""}
          /\ token' = login_response'.token
          /\ session_headers' = Headers(session_headers.ctype, token')]_vars

C24_Witness ==
    /\ login_response.kind = "return" /\ login_response.success = "false"
    /\ login_response.token = "tok-B"
    /\ token = "tok-A" /\ session_headers = Headers(JsonType, "tok-A")
    /\ uploaded /\ rpc = "done"

\* C28: uploads leave the session's default headers alone: after any
\* number of them the defaults still have "Content-Type: application/json"
\* and the Authorization of the credential held, and the calls of a
\* request that is no upload carry the JSON content type.
C28_UploadKeepsDefaults ==
    /\ session_headers.ctype = JsonType
    /\ session_headers.auth = Held(token)
    /\ ~files => \A i \in DOMAIN sent : sent[i].ctype = JsonType

C28_Witness ==
    /\ uploaded /\ ~files /\ Len(sent) >= 1
    /\ token = "tok-A" /\ session_headers = Headers(JsonType, "tok-A")
    /\ sent[1] = Headers(JsonType, "tok-A")

\* ================================================ the async HTTP session
\* C27: however the requests started together on one async client
\* interleave, at most one HTTP session is created, and every network call
\* of every request, retries included, is made on it.
C27_OneSessionForAll ==
    /\ created <= 1
    /\ session = created
    /\ \A t \in Tasks :
          IF tasks[t].pc = "new" THEN tasks[t].used = NoSession
          ELSE session # NoSession /\ tasks[t].used = session

C27_Witness ==
    /\ created = 1 /\ \A t \in Tasks : tasks[t].used = 1
    /\ tasks[1].pc = "awaiting" /\ tasks[1].attempt = 1
    /\ tasks[2].pc = "sleeping" /\ tasks[3].pc = "done"

====
